---- MODULE Spec2Model ----
(***************************************************************************)
(* Access control state machine of pi/guardianBT.py: OTP verification,     *)
(* relay actuation, the auto-close timers, the periodic health refresh and *)
(* the status frame, as dispatched by the single-threaded GLib main loop.  *)
(*                                                                         *)
(* Time is counted in whole seconds.  A pending GLib timeout is kept as    *)
(* the number of seconds that remain until it is due (0: due).  A handler  *)
(* runs from its dispatch to its return without the loop dispatching       *)
(* anything else: pc = "idle" is the loop waiting for the next event.      *)
(* Voltages are kept in millivolts (12.0 V = 12000).                       *)
(* The 60 s period of the health refresh is not counted: its timeout may   *)
(* be dispatched whenever the loop waits.                                  *)
(***************************************************************************)
EXTENDS Integers, Sequences, FiniteSets

VARIABLES
    otp_verified,      \* global otp_verified
    lock_open,         \* global lock_open
    current_otp,       \* global current_otp (<<>> models None)
    relay,             \* level of RELAY_PIN: 0 = LOW, 1 = HIGH
    battery_percent,   \* global battery_percent
    voltage,           \* global voltage, in millivolts
    safe_status,       \* global safe_status
    status_value,      \* StatusCharacteristic.value
    otp_value,         \* OTPCharacteristic.value
    published,         \* bytes 0 and 1 of the last frame PropertiesChanged
                       \* carried (<<>>: none was published yet)
    timers,            \* pending auto_close_lock timeouts, oldest first
    health_timer,      \* the update_system_health timeout is installed
    running,           \* mainloop.run() is dispatching
    pc,                \* position of the handler being run ("idle": none)
    handler,           \* which handler is being run
    value,             \* WriteValue's argument
    firing,            \* index in timers of the timeout being dispatched
    slept,             \* seconds of open_lock's time.sleep(2) already slept
    ret,               \* verify_otp's return value ("none" until it returns)
    from_open,         \* lock_open when the handler was dispatched
    armed0,            \* number of pending timeouts when it was dispatched
    entry,             \* the tracked fields when it was dispatched
    sampler,           \* how update_system_health's readings went
    events,            \* what the handler did so far, in order
    notes,             \* frames the handler published so far, in order
    lcd,               \* first line of the last display_message
    last_write_ok,     \* the last completed handler was a write verify_otp accepted
    since_opened,      \* seconds since open_lock last armed a timer (capped)
    reopened           \* that open_lock ran with the lock already open

globals == <<otp_verified, lock_open, current_otp, relay>>
health  == <<battery_percent, voltage, safe_status>>
chars   == <<status_value, otp_value, published>>
loop    == <<timers, health_timer, running>>
frame   == <<pc, handler, value, firing, slept, ret, from_open, armed0,
             entry, sampler>>
observed == <<events, notes, lcd, last_write_ok, since_opened, reopened>>
vars == <<globals, health, chars, loop, frame, observed>>

----------------------------------------------------------------------------
(* Program constants                                                       *)

AutoCloseSecs == 15
SettleSecs == 2
VerifyPauseSecs == 1
DefaultBattery == 100
DefaultVoltage == 12000
ActiveStatus == 1

(* Bounds of the model                                                     *)

\* Most auto-close timeouts pending at once: a write is taken only below it.
MaxTimers == 2

----------------------------------------------------------------------------
(* Inputs                                                                  *)

\* The payloads written to the OTP characteristic, as byte sequences:
\* 48..57 are '0'..'9', 47 is '/', 58 is ':', 97 is 'a', and 178 is the
\* Latin-1 superscript two.
Payloads ==
    { <<>>,
      <<49, 57, 48, 49, 57>>,
      <<49, 57, 48, 49, 57, 48>>,
      <<49, 57, 48, 49, 57, 48, 49>>,
      <<49, 57, 97, 49, 57, 48>>,
      <<47, 57, 48, 49, 57, 48>>,
      <<49, 57, 48, 49, 57, 58>>,
      <<49, 57, 48, 49, 57, 178>> }

\* Whole hours of uptime read from /proc/uptime.
UptimeHours == {0, 3}

\* Core voltages vcgencmd reports, in units of 0.1 mV (1.3500 V = 13500).
CoreVolts == {13500}

----------------------------------------------------------------------------
(* Pure functions                                                          *)

Min(a, b) == IF a < b THEN a ELSE b
Max(a, b) == IF a > b THEN a ELSE b

\* str.isdigit() of chr(b) for a byte b: the ASCII digits and the three
\* Latin-1 superscript digits (0xB2, 0xB3, 0xB9), which isdigit() accepts.
IsDigitChar(b) == b \in 48..57 \/ b \in {178, 179, 185}

\* The check with '0' left out of the digits ('1' <= c <= '9').
FormatOK_NoZero(s) == Len(s) = 6 /\ \A i \in 1..Len(s) : s[i] \in 49..57

\* len(received_otp) == 6 and received_otp.isdigit()
FormatOK(s) == Len(s) = 6 /\ \A i \in 1..Len(s) : IsDigitChar(s[i])

\* int(voltage * 10) for a voltage in millivolts: int() truncates toward zero
VoltageInt(mv) == IF mv >= 0 THEN mv \div 100 ELSE -((-mv) \div 100)

\* The frame with the lock byte computed from otp_verified (a copied line).
StatusFrame_LockFromVerified(v, l, b, s, mv) ==
    << IF v THEN 1 ELSE 0,
       IF v THEN 1 ELSE 0,
       Max(0, Min(100, b)),
       s,
       (VoltageInt(mv) \div 256) % 256,
       VoltageInt(mv) % 256 >>

\* The six status bytes update_status packs; >> and & are Python's, on
\* integers of any sign (floor shift, non-negative mask).
StatusFrame(v, l, b, s, mv) ==
    << IF v THEN 1 ELSE 0,
       IF l THEN 1 ELSE 0,
       Max(0, Min(100, b)),
       s,
       (VoltageInt(mv) \div 256) % 256,
       VoltageInt(mv) % 256 >>

\* ReadValue's packing with the battery level masked instead of clamped.
ReadFrame_Unclamped(v, l, b, s, mv) ==
    << IF v THEN 1 ELSE 0,
       IF l THEN 1 ELSE 0,
       b % 256,
       s,
       (VoltageInt(mv) \div 256) % 256,
       VoltageInt(mv) % 256 >>

\* The six status bytes ReadValue packs, in its own copy of the lines.
ReadFrame(v, l, b, s, mv) ==
    LET otp_byte     == IF v THEN 1 ELSE 0
        lock_byte    == IF l THEN 1 ELSE 0
        battery_byte == Max(0, Min(100, b))
        status_byte  == s
        voltage_int  == VoltageInt(mv)
        voltage_high == (voltage_int \div 256) % 256
        voltage_low  == voltage_int % 256
    IN  <<otp_byte, lock_byte, battery_byte, status_byte,
          voltage_high, voltage_low>>

\* min(int(uptime_seconds / 3600), 100), then max(0, 100 - drain)
BatteryFromUptime(h) == Max(0, 100 - Min(h, 100))

\* Every pending timeout d seconds later.
Elapse(ts, d) == [i \in 1..Len(ts) |-> Max(0, ts[i] - d)]

\* ts without its i-th element.
RemoveAt(ts, i) == [j \in 1..(Len(ts) - 1) |-> IF j < i THEN ts[j] ELSE ts[j + 1]]

\* How an event log names a published frame.
NoteTag(f) ==
    IF f[1] = 1 THEN (IF f[2] = 1 THEN "notify11" ELSE "notify10")
                ELSE (IF f[2] = 1 THEN "notify01" ELSE "notify00")

----------------------------------------------------------------------------
(* Initial state: the module-level assignments, before main() runs         *)

Init ==
    /\ otp_verified = FALSE
    /\ lock_open = FALSE
    /\ current_otp = <<>>
    /\ relay = 0
    /\ battery_percent = DefaultBattery
    /\ voltage = DefaultVoltage
    /\ safe_status = ActiveStatus
    /\ status_value = <<>>
    /\ otp_value = <<>>
    /\ published = <<>>
    /\ timers = <<>>
    /\ health_timer = FALSE
    /\ running = FALSE
    /\ pc = "boot"
    /\ handler = "main"
    /\ value = <<>>
    /\ firing = 0
    /\ slept = 0
    /\ ret = "none"
    /\ from_open = FALSE
    /\ armed0 = 0
    /\ entry = <<>>
    /\ sampler = "none"
    /\ events = <<>>
    /\ notes = <<>>
    /\ lcd = ""
    /\ last_write_ok = FALSE
    /\ since_opened = AutoCloseSecs
    /\ reopened = FALSE

----------------------------------------------------------------------------
(* Helpers of the handlers                                                 *)

\* StatusCharacteristic.update_status: pack the current state, keep it as the
\* characteristic's value and emit PropertiesChanged.
\* v and l are otp_verified and lock_open as the caller has just set them,
\* done what the caller did since the handler's last logged event.
UpdateStatus(v, l, done) ==
    LET f == StatusFrame(v, l, battery_percent, safe_status, voltage)
    IN  /\ status_value' = f
        /\ published' = <<f[1], f[2]>>
        /\ notes' = Append(notes, f)
        /\ events' = events \o done \o <<NoteTag(f)>>

\* The settle delay cut one second short.
SettleDone_Short(n) == n >= SettleSecs - 1

\* open_lock's time.sleep(2) is over once n seconds of it were slept.
SettleDone(n) == n >= SettleSecs

\* GLib.timeout_add_seconds(15, auto_close_lock): one more pending timeout.
TimeoutAdd(ts) == Append(ts, AutoCloseSecs)

\* update_system_health with an except branch that reports an empty battery
\* and status 3 (offline) instead of the defaults.
UpdateSystemHealth_NoFallback(upOK, h, vOK, cv) ==
    IF upOK
    THEN /\ battery_percent' = BatteryFromUptime(h)
         /\ voltage' = IF vOK THEN cv ELSE DefaultVoltage
         /\ safe_status' = ActiveStatus
    ELSE /\ battery_percent' = 0
         /\ voltage' = 0
         /\ safe_status' = 3

\* update_system_health: upOK says whether /proc/uptime could be read (h whole
\* hours), vOK whether vcgencmd ran and returned 0 (reporting cv).
UpdateSystemHealth(upOK, h, vOK, cv) ==
    IF upOK
    THEN /\ battery_percent' = BatteryFromUptime(h)
         /\ voltage' = IF vOK THEN cv ELSE DefaultVoltage
         /\ safe_status' = ActiveStatus
    ELSE /\ battery_percent' = DefaultBattery
         /\ voltage' = DefaultVoltage
         /\ safe_status' = ActiveStatus

\* time.sleep(d) inside a handler: the pending timeouts come d seconds closer
\* and nothing is dispatched.
Sleep(d) ==
    /\ timers' = Elapse(timers, d)
    /\ since_opened' = Min(AutoCloseSecs, since_opened + d)

\* The fields the status frame is packed from.
Tracked == <<otp_verified, lock_open, battery_percent, voltage, safe_status>>

\* How a run of update_system_health went: /proc/uptime unreadable (the outer
\* except), only vcgencmd failing (the inner fallback), or both read.
SampleOutcome(upOK, vOK) ==
    IF ~upOK THEN "failed" ELSE IF ~vOK THEN "volt_failed" ELSE "ok"

\* A loop that also takes events while open_lock's delay is being slept.
Dispatch_DuringSettle(h, p) ==
    /\ pc \in {"idle", "settle"}
    /\ running
    /\ handler' = h
    /\ pc' = p
    /\ from_open' = lock_open
    /\ armed0' = Len(timers)
    /\ entry' = Tracked
    /\ ret' = "none"
    /\ slept' = 0

\* The loop takes an event: the handler's frame starts empty.
Dispatch(h, p) ==
    /\ pc = "idle"
    /\ running
    /\ handler' = h
    /\ pc' = p
    /\ from_open' = lock_open
    /\ armed0' = Len(timers)
    /\ entry' = Tracked
    /\ ret' = "none"
    /\ slept' = 0

----------------------------------------------------------------------------
(* main(), up to mainloop.run()                                            *)

Main ==
    /\ pc = "boot"
    /\ status_value' = <<0, 0, 100, 1, 0, 120>>
    /\ health_timer' = TRUE
    /\ \E upOK \in BOOLEAN, h \in UptimeHours, vOK \in BOOLEAN, cv \in CoreVolts :
           /\ UpdateSystemHealth(upOK, h, vOK, cv)
           /\ sampler' = SampleOutcome(upOK, vOK)
    /\ running' = TRUE
    /\ entry' = Tracked
    /\ pc' = "return"
    /\ handler' = "main"
    /\ lcd' = "Guardian Safe"
    /\ UNCHANGED <<globals, otp_value, published, timers, value, firing,
                   slept, ret, from_open, armed0, events, notes,
                   last_write_ok, since_opened, reopened>>

----------------------------------------------------------------------------
(* Time passing while the loop waits                                       *)

Tick ==
    /\ pc = "idle"
    /\ running
    /\ Sleep(1)
    /\ UNCHANGED <<globals, health, chars, health_timer, running, frame,
                   events, notes, lcd, last_write_ok, reopened>>

----------------------------------------------------------------------------
(* OTPCharacteristic.WriteValue -> verify_otp -> open_lock                 *)

\* WriteValue is dispatched with payload p; verify_otp shows it.
OTPWrite(p) ==
    /\ Dispatch("write", "verify")
    /\ Len(timers) < MaxTimers
    /\ value' = p
    /\ lcd' = "Verifying OTP"
    /\ UNCHANGED <<globals, health, chars, loop, firing, sampler, events,
                   notes, last_write_ok, since_opened, reopened>>

\* verify_otp, the format check and its accepting branch up to update_status.
VerifyAccept ==
    /\ pc = "verify"
    /\ FormatOK(value)
    /\ current_otp' = value
    /\ otp_verified' = TRUE
    /\ lcd' = "OTP Verified!"
    /\ UpdateStatus(TRUE, lock_open, <<>>)
    /\ pc' = "pause"
    /\ UNCHANGED <<lock_open, relay, health, otp_value, loop, handler, value,
                   firing, slept, ret, from_open, armed0, entry, sampler,
                   last_write_ok, since_opened, reopened>>

\* verify_otp calling open_lock() below the if, for a rejected code as well.
VerifyReject_Opens ==
    /\ pc = "verify"
    /\ ~FormatOK(value)
    /\ lcd' = "Invalid OTP"
    /\ ret' = "false"
    /\ pc' = "open"
    /\ UNCHANGED <<globals, health, chars, loop, handler, value, firing,
                   slept, from_open, armed0, entry, sampler, events, notes,
                   last_write_ok, since_opened, reopened>>

\* verify_otp, the rejecting branch: return False.
VerifyReject ==
    /\ pc = "verify"
    /\ ~FormatOK(value)
    /\ lcd' = "Invalid OTP"
    /\ ret' = "false"
    /\ pc' = "store"
    /\ UNCHANGED <<globals, health, chars, loop, handler, value, firing,
                   slept, from_open, armed0, entry, sampler, events, notes,
                   last_write_ok, since_opened, reopened>>

\* verify_otp: time.sleep(1)
VerifyPause ==
    /\ pc = "pause"
    /\ Sleep(VerifyPauseSecs)
    /\ events' = Append(events, "pause")
    /\ pc' = "open"
    /\ UNCHANGED <<globals, health, chars, health_timer, running, handler,
                   value, firing, slept, ret, from_open, armed0, entry,
                   sampler, notes, lcd, last_write_ok, reopened>>

\* open_lock: the "opening" feedback and GPIO.output(RELAY_PIN, GPIO.HIGH)
OpenRelay ==
    /\ pc = "open"
    /\ lcd' = "Opening Lock..."
    /\ relay' = 1
    /\ events' = Append(Append(events, "opening"), "relay_high")
    /\ pc' = "settle"
    /\ UNCHANGED <<otp_verified, lock_open, current_otp, health, chars, loop,
                   handler, value, firing, slept, ret, from_open, armed0,
                   entry, sampler, notes, last_write_ok, since_opened,
                   reopened>>

\* open_lock: time.sleep(2), one second at a time
OpenSettle ==
    /\ pc = "settle"
    /\ ~SettleDone(slept)
    /\ Sleep(1)
    /\ slept' = slept + 1
    /\ events' = Append(events, "settle")
    /\ UNCHANGED <<globals, health, chars, health_timer, running, pc,
                   handler, value, firing, ret, from_open, armed0, entry,
                   sampler, notes, lcd, last_write_ok, reopened>>

\* open_lock: lock_open = True, the "opened" feedback and update_status
OpenSet ==
    /\ pc = "settle"
    /\ SettleDone(slept)
    /\ lock_open' = TRUE
    /\ lcd' = "Lock Opened!"
    /\ UpdateStatus(otp_verified, TRUE, <<"lock_open", "opened">>)
    /\ pc' = "arm"
    /\ UNCHANGED <<otp_verified, current_otp, relay, health, otp_value, loop,
                   handler, value, firing, slept, ret, from_open, armed0,
                   entry, sampler, last_write_ok, since_opened, reopened>>

\* open_lock: GLib.timeout_add_seconds(15, auto_close_lock); verify_otp returns True
OpenArm ==
    /\ pc = "arm"
    /\ timers' = TimeoutAdd(timers)
    /\ since_opened' = 0
    /\ reopened' = from_open
    /\ events' = Append(events, "arm")
    /\ ret' = "true"
    /\ pc' = "store"
    /\ UNCHANGED <<globals, health, chars, health_timer, running, handler,
                   value, firing, slept, from_open, armed0, entry, sampler,
                   notes, lcd, last_write_ok>>

\* WriteValue: self.value = value
WriteStore ==
    /\ pc = "store"
    /\ otp_value' = value
    /\ pc' = "return"
    /\ UNCHANGED <<globals, health, status_value, published, loop, handler,
                   value, firing, slept, ret, from_open, armed0, entry,
                   sampler, observed>>

----------------------------------------------------------------------------
(* auto_close_lock and close_lock                                          *)

\* The loop dispatches the i-th pending timeout, which is due.
TimerFire(i) ==
    /\ Dispatch("auto", "auto")
    /\ timers[i] = 0
    /\ firing' = i
    /\ UNCHANGED <<globals, health, chars, loop, value, sampler, observed>>

\* auto_close_lock without its test of lock_open.
AutoCheck_NoGuard ==
    /\ pc = "auto"
    /\ pc' = "close"
    /\ UNCHANGED <<globals, health, chars, loop, handler, value, firing,
                   slept, ret, from_open, armed0, entry, sampler, observed>>

\* auto_close_lock: if lock_open
AutoCheck ==
    /\ pc = "auto"
    /\ pc' = IF lock_open THEN "close" ELSE "return"
    /\ UNCHANGED <<globals, health, chars, loop, handler, value, firing,
                   slept, ret, from_open, armed0, entry, sampler, observed>>

\* close_lock without its GPIO.output: the relay is left as it is.
CloseRelay_Skipped ==
    /\ pc = "close"
    /\ relay' = relay
    /\ events' = Append(events, "relay_low")
    /\ pc' = "unlatch"
    /\ UNCHANGED <<otp_verified, lock_open, current_otp, health, chars, loop,
                   handler, value, firing, slept, ret, from_open, armed0,
                   entry, sampler, notes, lcd, last_write_ok, since_opened,
                   reopened>>

\* close_lock, called by auto_close_lock or by main's shutdown path:
\* GPIO.output(RELAY_PIN, GPIO.LOW)
CloseRelay ==
    /\ pc = "close"
    /\ relay' = 0
    /\ events' = Append(events, "relay_low")
    /\ pc' = "unlatch"
    /\ UNCHANGED <<otp_verified, lock_open, current_otp, health, chars, loop,
                   handler, value, firing, slept, ret, from_open, armed0,
                   entry, sampler, notes, lcd, last_write_ok, since_opened,
                   reopened>>

\* close_lock: lock_open = False, the "closed" feedback and update_status
CloseLock ==
    /\ pc = "unlatch"
    /\ lock_open' = FALSE
    /\ lcd' = "Lock Closed"
    /\ UpdateStatus(otp_verified, FALSE, <<"closed">>)
    /\ pc' = IF handler = "auto" THEN "reset" ELSE "exited"
    /\ UNCHANGED <<otp_verified, current_otp, relay, health, otp_value, loop,
                   handler, value, firing, slept, ret, from_open, armed0,
                   entry, sampler, last_write_ok, since_opened, reopened>>

\* auto_close_lock clearing otp_verified without the update_status after it.
AutoReset_Silent ==
    /\ pc = "reset"
    /\ otp_verified' = FALSE
    /\ pc' = "return"
    /\ UNCHANGED <<lock_open, current_otp, relay, health, chars, loop,
                   handler, value, firing, slept, ret, from_open, armed0,
                   entry, sampler, observed>>

\* auto_close_lock: otp_verified = False and update_status
AutoReset ==
    /\ pc = "reset"
    /\ otp_verified' = FALSE
    /\ UpdateStatus(FALSE, lock_open, <<>>)
    /\ pc' = "return"
    /\ UNCHANGED <<lock_open, current_otp, relay, health, otp_value, loop,
                   handler, value, firing, slept, ret, from_open, armed0,
                   entry, sampler, lcd, last_write_ok, since_opened,
                   reopened>>

----------------------------------------------------------------------------
(* The periodic update_system_health and StatusCharacteristic.ReadValue    *)

HealthFire ==
    /\ Dispatch("health", "return")
    /\ health_timer
    /\ \E upOK \in BOOLEAN, h \in UptimeHours, vOK \in BOOLEAN, cv \in CoreVolts :
           /\ UpdateSystemHealth(upOK, h, vOK, cv)
           /\ sampler' = SampleOutcome(upOK, vOK)
    /\ UNCHANGED <<globals, chars, loop, value, firing, observed>>

\* Characteristic.ReadValue, not overridden: return self.value.
StatusRead_Cached ==
    /\ Dispatch("read", "return")
    /\ UNCHANGED <<globals, health, chars, loop, value, firing, sampler,
                   observed>>

\* StatusCharacteristic.ReadValue: pack the current state, keep it as the
\* characteristic's value and return it.
StatusRead ==
    /\ Dispatch("read", "return")
    /\ status_value' = ReadFrame(otp_verified, lock_open, battery_percent,
                                 safe_status, voltage)
    /\ UNCHANGED <<globals, health, otp_value, published, loop, value,
                   firing, sampler, observed>>

----------------------------------------------------------------------------
(* The handler returns to the loop                                         *)

\* auto_close_lock's return value: False, "don't repeat".
AutoCloseRepeats == FALSE

\* update_system_health without its last line returns None.
HealthRepeats_None == FALSE

\* update_system_health's return value: True, "continue periodic updates".
HealthRepeats == TRUE

\* GLib removes a timeout whose callback returned False and keeps, for another
\* interval, one whose callback returned True.
Return ==
    /\ pc = "return"
    /\ timers' = IF handler # "auto" THEN timers
                 ELSE IF AutoCloseRepeats
                      THEN [timers EXCEPT ![firing] = AutoCloseSecs]
                      ELSE RemoveAt(timers, firing)
    /\ health_timer' = IF handler = "health" THEN HealthRepeats ELSE health_timer
    /\ last_write_ok' = (handler = "write" /\ ret = "true")
    /\ pc' = "idle"
    /\ handler' = "none"
    /\ value' = <<>>
    /\ firing' = 0
    /\ slept' = 0
    /\ ret' = "none"
    /\ from_open' = FALSE
    /\ armed0' = 0
    /\ entry' = <<>>
    /\ sampler' = "none"
    /\ events' = <<>>
    /\ notes' = <<>>
    /\ UNCHANGED <<globals, health, chars, running, lcd, since_opened,
                   reopened>>

----------------------------------------------------------------------------
(* KeyboardInterrupt out of mainloop.run(): main's shutdown path           *)

Shutdown ==
    /\ pc = "idle"
    /\ running
    /\ running' = FALSE
    /\ handler' = "main"
    /\ pc' = "close"
    /\ entry' = Tracked
    /\ lcd' = "Shutting Down"
    /\ UNCHANGED <<globals, health, chars, timers, health_timer, value,
                   firing, slept, ret, from_open, armed0, sampler, events,
                   notes, last_write_ok, since_opened, reopened>>

----------------------------------------------------------------------------

Step ==
    \/ VerifyAccept
    \/ VerifyReject
    \/ VerifyPause
    \/ OpenRelay
    \/ OpenSettle
    \/ OpenSet
    \/ OpenArm
    \/ WriteStore
    \/ AutoCheck
    \/ CloseRelay
    \/ CloseLock
    \/ AutoReset
    \/ Return

Next ==
    \/ Main
    \/ Tick
    \/ \E p \in Payloads : OTPWrite(p)
    \/ \E i \in 1..Len(timers) : TimerFire(i)
    \/ HealthFire
    \/ StatusRead
    \/ Shutdown
    \/ Step

Spec == Init /\ [][Next]_vars

\* The loop dispatches a ready source whenever it is waiting, so time passes
\* and a due timeout is dispatched however many other events arrive; a
\* handler that was dispatched runs to its return.
LiveSpec ==
    /\ Spec
    /\ WF_vars(Step)
    /\ SF_vars(Tick)
    /\ SF_vars(\E i \in 1..Len(timers) : TimerFire(i))

----------------------------------------------------------------------------
(* Vocabulary of the properties                                            *)

\* A payload of exactly six ASCII decimal digits.
SixAsciiDigits(s) == Len(s) = 6 /\ \A i \in 1..Len(s) : s[i] \in 48..57

\* The loop is waiting between two event handlers.
BetweenHandlers == pc = "idle" /\ running

\* Some pending auto-close timeout is due.
TimerDue == \E i \in 1..Len(timers) : timers[i] = 0

----------------------------------------------------------------------------
(* C1: a write whose payload is not exactly six ASCII decimal digits makes *)
(* verify_otp return failure and changes none of otp_verified, lock_open,  *)
(* the relay and the pending auto-close timers; the handler calls no       *)
(* actuator and publishes no notification.                                 *)
C1_MalformedWriteChangesNothing ==
    [][(handler = "write" /\ ~SixAsciiDigits(value)) =>
          /\ otp_verified' = otp_verified
          /\ lock_open' = lock_open
          /\ relay' = relay
          /\ Len(timers') = Len(timers)
          /\ notes' = <<>>
          /\ events' = <<>>
          /\ ret' # "true"
          /\ (pc' = "return" => ret' = "false")]_vars

(* C2: when a valid OTP was accepted while the lock was already open, no   *)
(* auto-close firing closes the lock earlier than 15 s after that open     *)
(* armed its timer.                                                        *)
C2_NoCloseBeforeFreshDeadline ==
    [][(handler = "auto" /\ reopened /\ lock_open /\ ~lock_open') =>
          since_opened >= AutoCloseSecs]_vars

(* C3: at most one auto-close timer is pending in every reachable state.   *)
C3_AtMostOneTimer == Len(timers) <= 1

(* C4: between event handlers the lock is open exactly when an auto-close  *)
(* timer is pending.                                                       *)
C4_OpenIffTimerPending == BetweenHandlers => (lock_open <=> timers # <<>>)

(* C5: once a close has completed (the auto-close handler has returned, or *)
(* the shutdown path has run close_lock) and the lock is closed,           *)
(* otp_verified is false.                                                  *)
C5_ClosedImpliesUnverified ==
    (pc \in {"idle", "exited"} /\ ~lock_open) => ~otp_verified

\* The lock is closed and the verification reset: lock_open and otp_verified
\* are false, the relay is LOW and the handler that closed the lock has
\* published a frame with byte[0] = 0 and byte[1] = 0.
C6_ClosedAndReset ==
    /\ ~lock_open
    /\ ~otp_verified
    /\ relay = 0
    /\ notes # <<>>
    /\ notes[Len(notes)][1] = 0
    /\ notes[Len(notes)][2] = 0

(* C6: once the lock is open, the auto-close timer eventually fires and   *)
(* the system reaches lock_open = false and otp_verified = false with the  *)
(* relay LOW and a frame with byte[0] = 0, byte[1] = 0 published: the lock *)
(* never stays open forever.                                               *)
C6_OpenLeadsToClosedAndReset == lock_open ~> C6_ClosedAndReset

(* C7: a write of six ASCII decimal digits makes verify_otp return True    *)
(* with otp_verified and lock_open both true, whether it arrives in Locked *)
(* or in Open, and a status read dispatched next returns a frame with      *)
(* byte[0] = 1 and byte[1] = 1.                                            *)
C7_ValidWriteVerifiesAndOpens ==
    [][/\ (handler = "write" /\ SixAsciiDigits(value)) =>
             /\ ret' # "false"
             /\ (ret' = "true" => otp_verified' /\ lock_open')
             /\ (pc' = "return" => ret' = "true")
       /\ (last_write_ok /\ handler' = "read") =>
             /\ status_value'[1] = 1
             /\ status_value'[2] = 1]_vars

\* A read dispatched right after a valid write that arrived in Open.
C7_Witness ==
    /\ handler = "read"
    /\ pc = "return"
    /\ last_write_ok
    /\ reopened
    /\ current_otp = <<49, 57, 48, 49, 57, 48>>
    /\ status_value[1] = 1
    /\ status_value[2] = 1

\* s is an initial part of t.
IsPrefix(s, t) == Len(s) <= Len(t) /\ \A i \in 1..Len(s) : s[i] = t[i]

\* What a write handler that opens from Locked does, in order.
OpenSequence ==
    <<"notify10", "pause", "opening", "relay_high">>
        \o [i \in 1..SettleSecs |-> "settle"]
        \o <<"lock_open", "opened", "notify11", "arm">>

(* C8: in a write handler dispatched in Locked, lock_open is true and a    *)
(* frame with byte[1] = 1 has been published only after the relay was      *)
(* energized and the whole 2 s settle delay was slept; the handler's steps *)
(* come in the order: opening feedback, relay energized, 2 s settle,       *)
(* lock_open set, opened feedback, notification.                           *)
C8_OpenOnlyAfterSettle ==
    (handler = "write" /\ ~from_open) =>
        /\ IsPrefix(events, OpenSequence)
        /\ lock_open => (relay = 1 /\ slept = SettleSecs)
        /\ lock_open <=> (\E i \in 1..Len(events) : events[i] = "lock_open")
        /\ \A i \in 1..Len(notes) :
               notes[i][2] = 1 => (lock_open /\ slept = SettleSecs)

\* The open from Locked has run to its end.
C8_Witness ==
    /\ handler = "write"
    /\ ~from_open
    /\ pc = "return"
    /\ lock_open
    /\ events = OpenSequence

(* C9: a write of six ASCII decimal digits dispatched in Locked has, when  *)
(* verify_otp has returned, published exactly two frames, the first with   *)
(* byte[0] = 1, byte[1] = 0 and the second with byte[0] = 1, byte[1] = 1,  *)
(* and armed exactly one more timer, of 15 s.                              *)
C9_TwoNotificationsOneTimer ==
    (handler = "write" /\ ~from_open /\ SixAsciiDigits(value)
        /\ pc \in {"store", "return"}) =>
        /\ Len(notes) = 2
        /\ notes[1][1] = 1 /\ notes[1][2] = 0
        /\ notes[2][1] = 1 /\ notes[2][2] = 1
        /\ Len(timers) = armed0 + 1
        /\ timers[Len(timers)] = AutoCloseSecs

\* The handler of a valid write that arrived in Locked is about to return.
C9_Witness ==
    /\ handler = "write"
    /\ ~from_open
    /\ SixAsciiDigits(value)
    /\ pc = "return"
    /\ Len(notes) = 2
    /\ timers = <<AutoCloseSecs>>

\* open_lock's caller is in its pause, or open_lock in its settle delay.
Waiting == handler = "write" /\ (pc = "pause" \/ (pc = "settle" /\ ~SettleDone(slept)))

(* C10: while an open is waiting (the 1 s pause and the 2 s settle delay)  *)
(* the loop can dispatch other events: a status read, the health refresh,  *)
(* another OTP write, and an auto-close timer that is due.                 *)
C10_WaitDoesNotBlockTheLoop ==
    Waiting =>
        /\ ENABLED StatusRead
        /\ ENABLED HealthFire
        /\ (Len(timers) < MaxTimers => ENABLED (\E p \in Payloads : OTPWrite(p)))
        /\ (TimerDue => ENABLED (\E i \in 1..Len(timers) : TimerFire(i)))


----------------------------------------------------------------------------
(* C11: handlers never interleave. From the moment a valid write has set   *)
(* otp_verified until its open_lock has set lock_open and armed the        *)
(* timeout, every step is that handler's own next step: no auto-close      *)
(* firing, close, health refresh or other write is dispatched, so          *)
(* otp_verified stays set, lock_open is never cleared, the relay is never  *)
(* released, the health reading and the payload stay and no pending        *)
(* timeout is taken off.                                                   *)

\* A valid write between setting otp_verified and arming the timeout.
MidOpen == handler = "write" /\ pc \in {"pause", "open", "settle", "arm"}

C11_HandlersNeverInterleave ==
    [][MidOpen =>
         /\ handler' = "write"
         /\ pc' \in {"open", "settle", "arm", "store"}
         /\ otp_verified /\ otp_verified'
         /\ lock_open => lock_open'
         /\ relay' >= relay
         /\ health' = health
         /\ value' = value /\ current_otp' = current_otp
         /\ Len(timers') >= Len(timers)
         /\ running' = running]_vars

\* An auto-close timeout falls due while a second open is in its settle
\* delay, and stays pending.
C11_Witness ==
    handler = "write" /\ pc = "settle" /\ slept = 1 /\ lock_open /\ TimerDue


----------------------------------------------------------------------------
(* C12: when an event handler (a write, an auto-close firing, a health     *)
(* refresh, a read) returns having changed otp_verified, lock_open or the  *)
(* health reading, it has published a notification, and the last one it    *)
(* published carries the frame of the state it leaves.                     *)

\* An event handler is about to return to the loop.
HandlerEnd == pc = "return" /\ handler \in {"write", "auto", "health", "read"}

C12_ChangeIsNotified ==
    (HandlerEnd /\ Tracked # entry) =>
        /\ notes # <<>>
        /\ notes[Len(notes)] = StatusFrame(otp_verified, lock_open,
                                           battery_percent, safe_status, voltage)


----------------------------------------------------------------------------
(* C13: a status read returns the six bytes packed from the current        *)
(* otp_verified, lock_open and health reading, whatever frame the          *)
(* characteristic held before, and changes none of otp_verified, lock_open,*)
(* the health reading, the relay and the pending timeouts; returning from  *)
(* it changes none of them either, so a second read with no event between  *)
(* returns the same frame.                                                 *)

\* The frame of the current state, byte by byte.
CurrentFrame ==
    << IF otp_verified THEN 1 ELSE 0,
       IF lock_open THEN 1 ELSE 0,
       IF battery_percent < 0 THEN 0
       ELSE IF battery_percent > 100 THEN 100 ELSE battery_percent,
       safe_status,
       ((voltage \div 100) \div 256) % 256,
       (voltage \div 100) % 256 >>

\* What a read must leave alone.
ReadLeaves == <<otp_verified, lock_open, current_otp, relay, health, timers,
                health_timer>>

C13_ReadIsCurrentAndPure ==
    [][/\ (pc = "idle" /\ handler' = "read") =>
             /\ status_value' = CurrentFrame
             /\ ReadLeaves' = ReadLeaves
       /\ (handler = "read") =>
             /\ pc' = "idle"
             /\ status_value' = status_value
             /\ ReadLeaves' = ReadLeaves
             /\ CurrentFrame' = status_value']_vars

\* A read in Open, one timeout pending, returns the frame with the battery
\* level a health refresh stored.
C13_Witness ==
    /\ handler = "read" /\ pc = "return"
    /\ lock_open /\ Len(timers) = 1
    /\ entry[3] = 97 /\ status_value[3] = 97
    /\ published = <<1, 1>>


----------------------------------------------------------------------------
(* C14: a periodic health refresh, and the initial sample main takes,      *)
(* change only the health reading: otp_verified, lock_open, the relay and  *)
(* the pending auto-close timeouts are as before, in Locked and in Open,   *)
(* a refresh leaves both characteristics' values alone, and when it        *)
(* returns the refresh is still scheduled.                                 *)

\* What a health sample must leave alone.
HealthLeaves == <<otp_verified, lock_open, current_otp, relay, timers>>

C14_RefreshChangesOnlyHealth ==
    [][/\ (pc = "boot") => HealthLeaves' = HealthLeaves /\ health_timer'
       /\ (pc = "idle" /\ handler' = "health") =>
             /\ HealthLeaves' = HealthLeaves
             /\ chars' = chars
             /\ health_timer'
       /\ (handler = "health") =>
             /\ pc' = "idle"
             /\ HealthLeaves' = HealthLeaves
             /\ chars' = chars
             /\ health' = health
             /\ health_timer']_vars

\* A refresh in Open, a timeout pending, has stored a different reading.
C14_Witness ==
    /\ handler = "health" /\ pc = "return"
    /\ lock_open /\ otp_verified /\ relay = 1 /\ Len(timers) = 1
    /\ Tracked # entry


----------------------------------------------------------------------------
(* C15: when the sampling in update_system_health fails (/proc/uptime      *)
(* cannot be read or parsed), the function still returns to the loop, the  *)
(* refresh stays scheduled and the loop keeps running, the stored reading  *)
(* is the one held before or the default (100 %, 12.0 V, active), and      *)
(* otp_verified, lock_open, the relay and the pending timeouts are         *)
(* untouched. When only the voltage probe fails, the voltage stored is the *)
(* default and the handler returns the same way.                           *)

DefaultReading == <<DefaultBattery, DefaultVoltage, ActiveStatus>>

----------------------------------------------------------------------------
(* The packing of the status frame, over inputs no run of main() stores    *)

\* Battery levels, below, inside and above 0..100.
CodecBatteries == {-5, 0, 1, 50, 99, 100, 101, 150}

\* Voltages in millivolts: negative, below a tenth, one and two bytes of
\* tenths, and more than two bytes of tenths.
CodecVoltages == {-150, -50, 0, 50, 12000, 12340, 25590, 25600, 6553700}

\* The safe_status codes.
CodecStatuses == 0..3

\* The loop waiting, the globals holding any of the inputs.
CodecInit ==
    /\ otp_verified \in BOOLEAN
    /\ lock_open \in BOOLEAN
    /\ battery_percent \in CodecBatteries
    /\ voltage \in CodecVoltages
    /\ safe_status \in CodecStatuses
    /\ current_otp = <<>>
    /\ relay = IF lock_open THEN 1 ELSE 0
    /\ status_value = <<0, 0, 100, 1, 0, 120>>
    /\ otp_value = <<>>
    /\ published = <<>>
    /\ timers = <<>>
    /\ health_timer = TRUE
    /\ running = TRUE
    /\ pc = "idle"
    /\ handler = "none"
    /\ value = <<>>
    /\ firing = 0
    /\ slept = 0
    /\ ret = "none"
    /\ from_open = FALSE
    /\ armed0 = 0
    /\ entry = <<>>
    /\ sampler = "none"
    /\ events = <<>>
    /\ notes = <<>>
    /\ lcd = "Guardian Safe"
    /\ last_write_ok = FALSE
    /\ since_opened = AutoCloseSecs
    /\ reopened = FALSE

\* status_characteristic.update_status() called on the state as it is.
CodecNotify ==
    /\ Dispatch("notify", "return")
    /\ UpdateStatus(otp_verified, lock_open, <<>>)
    /\ UNCHANGED <<globals, health, otp_value, loop, value, firing, sampler,
                   lcd, last_write_ok, since_opened, reopened>>

CodecNext ==
    \/ StatusRead
    \/ CodecNotify
    \/ Return

CodecSpec == CodecInit /\ [][CodecNext]_vars

(* C16: for every otp_verified, lock_open, battery level, safety code and  *)
(* voltage, the frame a read returns and the frame a notification          *)
(* publishes are the same six bytes [v, l, b, s, hi, lo]: v and l are 0 or *)
(* 1 for the two flags, b is the battery level clamped into 0..100 (-5     *)
(* gives 0, 150 gives 100), s is the safety code, hi and lo are bits 8..15 *)
(* and 0..7 of voltage * 10 truncated toward zero.                         *)

\* t is mv / 100 with its fraction dropped.
IsTruncation(t, mv) ==
    IF mv >= 0 THEN t >= 0 /\ 100 * t <= mv /\ mv < 100 * (t + 1)
               ELSE t <= 0 /\ 100 * t >= mv /\ mv > 100 * (t - 1)

\* f is the frame the claim describes for the current state.
IsClaimedFrame(f) ==
    /\ Len(f) = 6
    /\ \A i \in 1..6 : f[i] \in 0..255
    /\ f[1] = 1 <=> otp_verified
    /\ f[1] \in {0, 1}
    /\ f[2] = 1 <=> lock_open
    /\ f[2] \in {0, 1}
    /\ f[3] \in 0..100
    /\ battery_percent \in 0..100 => f[3] = battery_percent
    /\ battery_percent < 0 => f[3] = 0
    /\ battery_percent > 100 => f[3] = 100
    /\ f[4] = safe_status
    /\ \E t \in (voltage \div 100) .. (voltage \div 100) + 1 :
           /\ IsTruncation(t, voltage)
           /\ \E k \in {(t - 256 * f[5] - f[6]) \div 65536} :
                  t = 65536 * k + 256 * f[5] + f[6]

C16_FrameEncoding ==
    /\ (pc = "return" /\ handler = "read") => IsClaimedFrame(status_value)
    /\ (pc = "return" /\ handler = "notify") =>
           /\ notes # <<>>
           /\ IsClaimedFrame(notes[Len(notes)])
           /\ status_value = notes[Len(notes)]

\* A read of a state with 150 % and 6553.7 V: the level is clamped and the
\* tenths are cut to their low sixteen bits.
C16_Witness ==
    /\ pc = "return" /\ handler = "read"
    /\ battery_percent = 150 /\ voltage = 6553700
    /\ status_value = <<1, 0, 100, 3, 0, 1>>

\* A notification of a state with -5 % and -0.05 V.
C16_WitnessNotify ==
    /\ pc = "return" /\ handler = "notify"
    /\ battery_percent = -5 /\ voltage = -50
    /\ notes = << <<0, 1, 0, 2, 0, 0>> >>


----------------------------------------------------------------------------
(* C17: an auto-close timeout that fires while lock_open is false does     *)
(* nothing: otp_verified, lock_open, the relay and the characteristic's    *)
(* value stay, no notification is published, no timeout is added. Every    *)
(* timeout that fired is taken off the pending ones when its callback      *)
(* returns, the others staying as they are, so none fires twice.           *)

C17_ClosedFiringIsNoOp ==
    [][/\ (handler = "auto" /\ ~from_open) =>
             /\ ~lock_open /\ ~lock_open'
             /\ otp_verified' = otp_verified
             /\ relay' = relay
             /\ chars' = chars
             /\ notes = <<>> /\ notes' = <<>>
             /\ pc' \in {"return", "idle"}
             /\ Len(timers') <= Len(timers)
       /\ (handler = "auto" /\ pc' # "idle") => timers' = timers
       /\ (handler = "auto" /\ pc' = "idle") =>
             /\ timers[firing] = 0
             /\ Len(timers') = Len(timers) - 1
             /\ \A j \in 1..Len(timers') :
                    timers'[j] = IF j < firing THEN timers[j] ELSE timers[j + 1]]_vars

\* A timeout left over from a repeated open has fired on the lock an earlier
\* timeout closed, and is about to return.
C17_Witness ==
    /\ handler = "auto" /\ pc = "return" /\ ~from_open /\ ~lock_open
    /\ ~otp_verified /\ relay = 0 /\ published = <<0, 0>>
    /\ Len(timers) = 1 /\ firing = 1


----------------------------------------------------------------------------
(* C18: in every reachable state, the states inside handlers included,     *)
(* lock_open implies otp_verified; and no frame a read returned or a       *)
(* notification published has byte 0 = 0 with byte 1 = 1.                  *)

\* f is a frame, or the first bytes of one, saying "open but not verified".
OpenUnverified(f) == Len(f) >= 2 /\ f[1] = 0 /\ f[2] = 1

C18_OpenImpliesVerified ==
    /\ lock_open => otp_verified
    /\ ~OpenUnverified(status_value)
    /\ ~OpenUnverified(published)
    /\ \A i \in 1..Len(notes) : ~OpenUnverified(notes[i])

\* Inside an auto-close: close_lock has cleared lock_open and published
\* [1, 0]; otp_verified is cleared next.
C18_Witness ==
    /\ handler = "auto" /\ pc = "reset"
    /\ otp_verified /\ ~lock_open
    /\ published = <<1, 0>>


----------------------------------------------------------------------------
(* C19: in every reachable state lock_open implies that the relay is HIGH; *)
(* between two handlers the relay is HIGH exactly when lock_open is true;  *)
(* the relay is HIGH with lock_open false only inside the settle delay of  *)
(* an open.                                                                *)

\* The relay is HIGH while lock_open is false only in open_lock's delay.
HighUnopenedOnlySettling ==
    (relay = 1 /\ ~lock_open) => (handler = "write" /\ pc = "settle")

C19_OpenImpliesRelayHigh ==
    /\ lock_open => relay = 1
    /\ BetweenHandlers => (relay = 1 <=> lock_open)
    /\ HighUnopenedOnlySettling

(* C19, amended: lock_open implies that the relay is HIGH in every state   *)
(* but the one inside close_lock where the relay is already LOW and        *)
(* lock_open not yet cleared; between two handlers, and after the shutdown *)
(* close, the relay is HIGH exactly when lock_open is true; the relay is   *)
(* HIGH with lock_open false only inside the settle delay of an open.      *)
C19_OpenImpliesRelayHighButInClose ==
    /\ (lock_open /\ pc # "unlatch") => relay = 1
    /\ pc = "unlatch" => relay = 0
    /\ (BetweenHandlers \/ pc = "exited") => (relay = 1 <=> lock_open)
    /\ HighUnopenedOnlySettling

\* close_lock, run by a due timeout, has released the relay and not yet
\* cleared lock_open.
C19_Witness ==
    handler = "auto" /\ pc = "unlatch" /\ lock_open /\ relay = 0


----------------------------------------------------------------------------
(* C20: once main has registered the status characteristic, whenever a     *)
(* handler has come to its end (an accepted or rejected write, an          *)
(* auto-close firing, the shutdown close, and a refresh or a read as       *)
(* well) and while the loop waits, bytes 0 and 1 of the last notification  *)
(* published are the current otp_verified and lock_open; or none was       *)
(* published yet and both are false.                                       *)

\* No handler is in the middle of its statements.
AtHandlerEnd == pc \in {"return", "idle", "exited"}

C20_LastNotificationIsCurrent ==
    AtHandlerEnd =>
        IF published = <<>>
        THEN ~otp_verified /\ ~lock_open
        ELSE /\ published[1] = (IF otp_verified THEN 1 ELSE 0)
             /\ published[2] = (IF lock_open THEN 1 ELSE 0)

\* The shutdown close of an open lock: the notification says verified and
\* closed, as the state is.
C20_Witness ==
    /\ pc = "exited" /\ otp_verified /\ ~lock_open
    /\ published = <<1, 0>>
    /\ events = <<"relay_low", "closed", "notify10">>

============================================================================
